---- MODULE Spec2Model ----
(***************************************************************************)
(* Model of solana_agent_backend: the x402 payment gate (payment.rs), the  *)
(* axum route and handle_execute (main.rs) and the transaction builder and *)
(* fee bundler (swap.rs).                                                  *)
(*                                                                         *)
(* The specifications share the variables:                                  *)
(*   Spec     the HTTP pipeline: a request arrives, x402_middleware        *)
(*            decides, the route runs, the response is written;            *)
(*   SpecFee  append_fee_to_tx applied (repeatedly) to a transaction blob. *)
(*   SpecBuild  build_transfer_sol applied to its arguments;               *)
(*   SpecReplay the HTTP pipeline again, with a record of the decision of  *)
(*            the request in flight and of one earlier request.            *)
(***************************************************************************)
EXTENDS Integers, Sequences, FiniteSets, TLC

VARIABLES
    \* ---- HTTP pipeline -------------------------------------------------
    pc,         \* position of the request in flight: idle, gate, next, done
    req,        \* the request as received by x402_middleware
    fwd,        \* the request as handed to next.run (NoReq when not forwarded)
    gate,       \* what x402_middleware decided for the request
    resp,       \* the response written for the request
    ledger,     \* devnet ledger: signature -> absent | success | failed
    rpc_up,     \* whether https://api.devnet.solana.com answers
    key_index,  \* AppState.key_index (credential rotation counter)
    \* ---- fee bundler ---------------------------------------------------
    blob,       \* the base64 text currently held (input, then outputs)
    blob0,      \* the base64 text given to the first application
    payer,      \* user_pubkey argument
    fee_wallet, \* fee_wallet argument
    fee_lamports, \* fee_lamports argument
    applied,    \* number of applications of append_fee_to_tx so far
    last,       \* record of the most recent application
    \* ---- build_transfer_sol --------------------------------------------
    tf_from,    \* argument from
    tf_to,      \* argument to
    tf_amount,  \* argument amount, as the integer amount * 10^9
    built,      \* whether the call was made, and its result
    \* ---- history of gate decisions (observation only) -------------------
    obs,        \* inputs and outcome of the decision for the request in flight
    prev        \* the same for one earlier, completed request

gateVars == <<pc, req, fwd, gate, resp, ledger, rpc_up, key_index>>
feeVars == <<blob, blob0, payer, fee_wallet, fee_lamports, applied, last>>
buildVars == <<tf_from, tf_to, tf_amount, built>>
histVars == <<obs, prev>>
vars == <<pc, req, fwd, gate, resp, ledger, rpc_up, key_index,
          blob, blob0, payer, fee_wallet, fee_lamports, applied, last,
          tf_from, tf_to, tf_amount, built, obs, prev>>

(***************************************************************************)
(* Bounds of the model.                                                    *)
(***************************************************************************)
MaxKeyIndex == 2      \* requests that reach handle_execute in one run
MaxKeys == 3          \* length of the key table of an input transaction
MaxApply == 2         \* applications of append_fee_to_tx in one run

(***************************************************************************)
(* Addresses. A base-58 address string stands for the 32-byte key it       *)
(* decodes to; keys are numbered. The system program id                    *)
(* "11111111111111111111111111111111" decodes to the all-zero key.         *)
(***************************************************************************)
SYSTEM_PROGRAM_STR == "11111111111111111111111111111111"
SystemProgramKey == 0

AddrTable ==
    (SYSTEM_PROGRAM_STR :> 0) @@ ("UserA" :> 1) @@ ("AcctB" :> 2) @@ ("FeeW" :> 3)
    @@ ("So11111111111111111111111111111111111111112" :> 10)
    @@ ("EPjFWdd5AufqSSqeM2qN1xzybapC8G4wEGGkZwyTDt1v" :> 11)
    @@ ("Es9vMFrzaCERmJfrF4H2FYD4KCoNkY11McCe8BenwNYB" :> 12)
    @@ ("DezXAZ8z7PnrnRJjz3wXBoRgixCa6xjnB7YaB1pPB263" :> 13)
    @@ ("JUPyiwrYJFskUPiHa7hkeR8VUtAeFoSYbKedZNsDvCN" :> 14)
    @@ ("4k3Dyjzvzp8eMZWUXbBCjEvwSkkk59S5iCNLY3QrkX6R" :> 15)
    @@ ("EKpQGSJtjMFqKZ9KQanSqYXRcF8fBopzLHYxdM65zcjm" :> 16)

\* Pubkey::from_str: a string that is not base-58 of exactly 32 bytes fails.
PubkeyFromStr(s) ==
    IF s \in DOMAIN AddrTable
    THEN [ok |-> TRUE, key |-> AddrTable[s]]
    ELSE [ok |-> FALSE, key |-> 0]


(***************************************************************************)
(* Payment gate: payment.rs                                                *)
(***************************************************************************)
MERCHANT == "YOUR_WALLET_ADDRESS"
PRICE == 5000
MOCK_SIGNATURE == "mock_devnet_signature"

Methods == {"POST", "GET", "OPTIONS"}

\* Header texts that Signature::from_str accepts (they stand for base-58
\* strings of 64 bytes). Every other text, the mock signature included,
\* fails to parse.
SigStrings == {"SigA", "SigB"}

\* An X-Payment-Sig header: absent, present with bytes that are not visible
\* ASCII, or present with a text.
NoHeader == [present |-> FALSE, visible |-> TRUE, text |-> ""]
OpaqueHeader == [present |-> TRUE, visible |-> FALSE, text |-> ""]
TextHeader(t) == [present |-> TRUE, visible |-> TRUE, text |-> t]
Headers ==
    {NoHeader, OpaqueHeader}
    \cup {TextHeader(t) : t \in {MOCK_SIGNATURE, "not-a-signature"} \cup SigStrings}

\* HeaderValue::to_str
HeaderToStr(h) == [ok |-> h.visible, str |-> h.text]

\* Signature::from_str
SignatureFromStr(s) ==
    IF s \in SigStrings THEN [ok |-> TRUE, sig |-> s] ELSE [ok |-> FALSE, sig |-> ""]

\* rpc.get_transaction(&sig, Json): Err when the RPC node cannot be reached
\* or does not know the signature, Ok with the recorded transaction (and its
\* execution status) otherwise.
GetTransaction(l, up, sig) ==
    IF ~up THEN [ok |-> FALSE, what |-> "unreachable"]
    ELSE IF l[sig] = "absent" THEN [ok |-> FALSE, what |-> "not_found"]
    ELSE [ok |-> TRUE, what |-> l[sig]]

NoLookup == [ok |-> FALSE, what |-> "none"]

\* Responses. by: who wrote it (gate, route, extractor, handle_execute, or
\* panic when the handler task unwinds and no response is written).
Response(st, who, err, addr, amt, act, tx) ==
    [status |-> st, by |-> who, error |-> err, address |-> addr, amount |-> amt,
     action_type |-> act, tx_base64 |-> tx]
NoResp == Response(0, "none", "", "", 0, "", <<>>)

\* payment.rs:36-46
PaymentRequiredMutWrongPrice ==
    Response(402, "gate", "Payment Required", MERCHANT, 0, "", <<>>)
PaymentRequiredResponse ==
    Response(402, "gate", "Payment Required", MERCHANT, PRICE, "", <<>>)

\* Err(StatusCode::BAD_REQUEST) returned by the middleware
BadRequestMut402 == PaymentRequiredResponse
BadRequestResponse == Response(400, "gate", "", "", 0, "", <<>>)

\* payment.rs:12
IsPreflight(m) == m = "OPTIONS"

\* payment.rs:21
IsMockSignature(s) == s = MOCK_SIGNATURE

\* payment.rs:30
LookupAdmitsMutNever(res) == FALSE
LookupAdmitsMutAlways(res) == TRUE
LookupAdmitsMutOnce(res) ==
    res.ok /\ ~(prev.seen /\ prev.via = "ledger" /\ prev.header = req.header)
LookupAdmits(res) == res.ok

\* Outcome of x402_middleware before next.run: forward or answer.
GateForward(how, look) ==
    [decision |-> "ADMIT", via |-> how, lookup |-> look.what, answer |-> NoResp]
GateAnswer(d, look, r) ==
    [decision |-> d, via |-> "none", lookup |-> look.what, answer |-> r]
NoGate == [decision |-> "NONE", via |-> "none", lookup |-> "none", answer |-> NoResp]

x402_decide(r, l, up) ==
    IF IsPreflight(r.method) THEN GateForward("options", NoLookup)
    ELSE IF r.header.present THEN
        LET s == HeaderToStr(r.header) IN
        IF ~s.ok THEN GateAnswer("BAD_REQUEST", NoLookup, BadRequestResponse)
        ELSE IF IsMockSignature(s.str) THEN GateForward("sentinel", NoLookup)
        ELSE
            LET sig == SignatureFromStr(s.str) IN
            IF ~sig.ok THEN GateAnswer("BAD_REQUEST", NoLookup, BadRequestResponse)
            ELSE
                LET look == GetTransaction(l, up, sig.sig) IN
                IF LookupAdmits(look) THEN GateForward("ledger", look)
                ELSE GateAnswer("REJECT", look, PaymentRequiredResponse)
    ELSE GateAnswer("REJECT", NoLookup, PaymentRequiredResponse)

\* What the ledger answers, at this moment, for the signature a header
\* carries (payment.rs:27-30); "none" for a header that carries none.
LedgerAnswer(h, l, up) ==
    LET s == HeaderToStr(h) IN
    IF h.present /\ s.ok /\ SignatureFromStr(s.str).ok
    THEN GetTransaction(l, up, SignatureFromStr(s.str).sig).what
    ELSE "none"

\* Record of one run of x402_middleware: what it was given (the request's
\* method and header, the ledger's answer at that moment) and what it decided.
Observation(r, l, up, d) ==
    [seen |-> TRUE, method |-> r.method, header |-> r.header,
     answer |-> LedgerAnswer(r.header, l, up),
     decision |-> d.decision, via |-> d.via]
NoObs ==
    [seen |-> FALSE, method |-> "", header |-> NoHeader, answer |-> "none",
     decision |-> "NONE", via |-> "none"]


(***************************************************************************)
(* Transactions and their wire form: swap.rs uses solana_sdk Transaction,  *)
(* bincode and base64 (STANDARD).                                          *)
(*                                                                         *)
(* A transaction is [signatures, header, account_keys, recent_blockhash,   *)
(* instructions]; a compiled instruction is [program_id_index, accounts,   *)
(* data] with 0-based u8 indices into account_keys. In the wire form a     *)
(* key, a signature and a blockhash each take one byte here (32, 64 and 32 *)
(* on the real wire); everything else is laid out as bincode lays it out:  *)
(* a short_vec length byte before each vector.                             *)
(***************************************************************************)
Header(nrs, nros, nrou) ==
    [num_required_signatures |-> nrs,
     num_readonly_signed_accounts |-> nros,
     num_readonly_unsigned_accounts |-> nrou]

CompiledIx(p, accts, d) == [program_id_index |-> p, accounts |-> accts, data |-> d]

Tx(sigs, h, keys, bh, ixs) ==
    [signatures |-> sigs, header |-> h, account_keys |-> keys,
     recent_blockhash |-> bh, instructions |-> ixs]

RECURSIVE Flatten(_)
Flatten(ss) == IF ss = <<>> THEN <<>> ELSE Head(ss) \o Flatten(Tail(ss))

SerializeIx(ix) ==
    <<ix.program_id_index>> \o <<Len(ix.accounts)>> \o ix.accounts
        \o <<Len(ix.data)>> \o ix.data

\* bincode::serialize(&tx)
Serialize(tx) ==
    <<Len(tx.signatures)>> \o tx.signatures
        \o <<tx.header.num_required_signatures,
             tx.header.num_readonly_signed_accounts,
             tx.header.num_readonly_unsigned_accounts>>
        \o <<Len(tx.account_keys)>> \o tx.account_keys
        \o <<tx.recent_blockhash>>
        \o <<Len(tx.instructions)>>
        \o Flatten([i \in 1..Len(tx.instructions) |-> SerializeIx(tx.instructions[i])])

\* Reading a short_vec at position p of b: a length byte, then that many
\* one-byte items. A length byte of 128 or more announces at least 128
\* items, more than any blob of this model holds, so it ends in an
\* unexpected end of input like every other overrun.
ReadFail == [ok |-> FALSE, items |-> <<>>, next |-> 0]
ReadVec(b, p) ==
    IF p > Len(b) THEN ReadFail
    ELSE IF b[p] >= 128 \/ p + b[p] > Len(b) THEN ReadFail
    ELSE [ok |-> TRUE, items |-> SubSeq(b, p + 1, p + b[p]), next |-> p + b[p] + 1]

ReadIx(b, p) ==
    IF p > Len(b) THEN [ok |-> FALSE, ix |-> CompiledIx(0, <<>>, <<>>), next |-> 0]
    ELSE
        LET a == ReadVec(b, p + 1) IN
        IF ~a.ok THEN [ok |-> FALSE, ix |-> CompiledIx(0, <<>>, <<>>), next |-> 0]
        ELSE
            LET d == ReadVec(b, a.next) IN
            IF ~d.ok THEN [ok |-> FALSE, ix |-> CompiledIx(0, <<>>, <<>>), next |-> 0]
            ELSE [ok |-> TRUE, ix |-> CompiledIx(b[p], a.items, d.items), next |-> d.next]

RECURSIVE ReadIxs(_, _, _)
ReadIxs(b, p, n) ==
    IF n = 0 THEN [ok |-> TRUE, items |-> <<>>, next |-> p]
    ELSE
        LET one == ReadIx(b, p) IN
        IF ~one.ok THEN ReadFail
        ELSE
            LET rest == ReadIxs(b, one.next, n - 1) IN
            IF ~rest.ok THEN ReadFail
            ELSE [ok |-> TRUE, items |-> <<one.ix>> \o rest.items, next |-> rest.next]

NoTx == Tx(<<>>, Header(0, 0, 0), <<>>, 0, <<>>)
DeFail == [ok |-> FALSE, tx |-> NoTx]

\* bincode::deserialize::<Transaction>(&bytes); trailing bytes are allowed.
Deserialize(b) ==
    LET sg == ReadVec(b, 1) IN
    IF ~sg.ok THEN DeFail
    ELSE IF sg.next + 2 > Len(b) THEN DeFail
    ELSE
        LET h == Header(b[sg.next], b[sg.next + 1], b[sg.next + 2])
            ks == ReadVec(b, sg.next + 3)
        IN
        IF ~ks.ok THEN DeFail
        ELSE IF ks.next + 1 > Len(b) THEN DeFail
        ELSE IF b[ks.next + 1] >= 128 THEN DeFail
        ELSE
            LET is == ReadIxs(b, ks.next + 2, b[ks.next + 1]) IN
            IF ~is.ok THEN DeFail
            ELSE [ok |-> TRUE,
                  tx |-> Tx(sg.items, h, ks.items, b[ks.next], is.items)]

(***************************************************************************)
(* base64 STANDARD alphabet with padding. A text is a sequence of symbols: *)
(* 0..63 the alphabet, 64 the pad '=', anything above a character outside  *)
(* the alphabet.                                                           *)
(***************************************************************************)
Pad == 64

RECURSIVE B64Encode(_)
B64Encode(b) ==
    IF Len(b) = 0 THEN <<>>
    ELSE IF Len(b) = 1 THEN <<b[1] \div 4, (b[1] % 4) * 16, Pad, Pad>>
    ELSE IF Len(b) = 2
        THEN <<b[1] \div 4, (b[1] % 4) * 16 + b[2] \div 16, (b[2] % 16) * 4, Pad>>
    ELSE <<b[1] \div 4, (b[1] % 4) * 16 + b[2] \div 16,
           (b[2] % 16) * 4 + b[3] \div 64, b[3] % 64>>
         \o B64Encode(SubSeq(b, 4, Len(b)))

B64Fail == [ok |-> FALSE, bytes |-> <<>>]

RECURSIVE B64DecodeQuads(_)
B64DecodeQuads(t) ==
    IF Len(t) = 0 THEN [ok |-> TRUE, bytes |-> <<>>]
    ELSE
        LET a == t[1]  b == t[2]  c == t[3]  d == t[4] IN
        IF a >= Pad \/ b >= Pad \/ c > Pad \/ d > Pad THEN B64Fail
        ELSE IF c = Pad THEN
            \* one byte; only as the last quad, both pads, no stray bits
            IF d = Pad /\ Len(t) = 4 /\ b % 16 = 0
            THEN [ok |-> TRUE, bytes |-> <<a * 4 + b \div 16>>]
            ELSE B64Fail
        ELSE IF d = Pad THEN
            IF Len(t) = 4 /\ c % 4 = 0
            THEN [ok |-> TRUE,
                  bytes |-> <<a * 4 + b \div 16, (b % 16) * 16 + c \div 4>>]
            ELSE B64Fail
        ELSE
            LET rest == B64DecodeQuads(SubSeq(t, 5, Len(t))) IN
            IF ~rest.ok THEN B64Fail
            ELSE [ok |-> TRUE,
                  bytes |-> <<a * 4 + b \div 16, (b % 16) * 16 + c \div 4,
                              (c % 4) * 64 + d>> \o rest.bytes]

\* general_purpose::STANDARD.decode
B64Decode(t) == IF Len(t) % 4 # 0 THEN B64Fail ELSE B64DecodeQuads(t)

EncodeTx(tx) == B64Encode(Serialize(tx))


(***************************************************************************)
(* Token registry: swap.rs:16-46                                           *)
(***************************************************************************)
\* str::to_uppercase on the symbols of the model
ToUpper(s) ==
    CASE s = "sol" -> "SOL"
      [] s = "usdc" -> "USDC"
      [] s = "doge" -> "DOGE"
      [] OTHER -> s

MintTable ==
    ("SOL" :> "So11111111111111111111111111111111111111112")
    @@ ("USDC" :> "EPjFWdd5AufqSSqeM2qN1xzybapC8G4wEGGkZwyTDt1v")
    @@ ("USDT" :> "Es9vMFrzaCERmJfrF4H2FYD4KCoNkY11McCe8BenwNYB")
    @@ ("BONK" :> "DezXAZ8z7PnrnRJjz3wXBoRgixCa6xjnB7YaB1pPB263")
    @@ ("JUP" :> "JUPyiwrYJFskUPiHa7hkeR8VUtAeFoSYbKedZNsDvCN")
    @@ ("RAY" :> "4k3Dyjzvzp8eMZWUXbBCjEvwSkkk59S5iCNLY3QrkX6R")
    @@ ("WIF" :> "EKpQGSJtjMFqKZ9KQanSqYXRcF8fBopzLHYxdM65zcjm")

token_mint(symbol) ==
    IF ToUpper(symbol) \in DOMAIN MintTable
    THEN [some |-> TRUE, mint |-> MintTable[ToUpper(symbol)]]
    ELSE [some |-> FALSE, mint |-> ""]

is_valid_token(symbol) == token_mint(symbol).some

(***************************************************************************)
(* Instructions before compilation and Message::new                        *)
(***************************************************************************)
Meta(k, sg, wr) == [pubkey |-> k, is_signer |-> sg, is_writable |-> wr]
Ix(prog, metas, d) == [program_id |-> prog, accounts |-> metas, data |-> d]

\* u64 little-endian
RECURSIVE LE(_, _)
LE(n, width) == IF width = 0 THEN <<>> ELSE <<n % 256>> \o LE(n \div 256, width - 1)

\* system_instruction::transfer: SystemInstruction::Transfer is variant 2,
\* bincode writes the variant as u32 and the lamports as u64.
system_transfer(from, to, lamports) ==
    Ix(SystemProgramKey,
       <<Meta(from, TRUE, TRUE), Meta(to, FALSE, TRUE)>>,
       LE(2, 4) \o LE(lamports, 8))

\* 0-based index of the first occurrence of k in keys, or -1
Position(keys, k) ==
    IF \E i \in 1..Len(keys) : keys[i] = k
    THEN (CHOOSE i \in 1..Len(keys) :
            keys[i] = k /\ \A j \in 1..(i - 1) : keys[j] # k) - 1
    ELSE -1

RECURSIVE Dedup(_)
Dedup(ks) ==
    IF ks = <<>> THEN <<>>
    ELSE LET rest == Dedup(SubSeq(ks, 1, Len(ks) - 1)) IN
         IF Position(rest, ks[Len(ks)]) >= 0 THEN rest ELSE Append(rest, ks[Len(ks)])

\* Message::new(&instructions, Some(&payer)): the key table is the payer,
\* then the other writable signers, the read-only signers, the writable
\* non-signers and the read-only non-signers (program ids are read-only
\* non-signers); a key used several times gets the union of its privileges.
CompileMessage(ixs, payer_key) ==
    LET metas ==
            <<Meta(payer_key, TRUE, TRUE)>>
            \o Flatten([i \in 1..Len(ixs) |-> ixs[i].accounts])
            \o [i \in 1..Len(ixs) |-> Meta(ixs[i].program_id, FALSE, FALSE)]
        uniq == Dedup([i \in 1..Len(metas) |-> metas[i].pubkey])
        Signer(k) == \E i \in 1..Len(metas) : metas[i].pubkey = k /\ metas[i].is_signer
        Writable(k) == \E i \in 1..Len(metas) : metas[i].pubkey = k /\ metas[i].is_writable
        IsWS(k) == k # payer_key /\ Signer(k) /\ Writable(k)
        IsRS(k) == k # payer_key /\ Signer(k) /\ ~Writable(k)
        IsWN(k) == k # payer_key /\ ~Signer(k) /\ Writable(k)
        IsRN(k) == k # payer_key /\ ~Signer(k) /\ ~Writable(k)
        ws == SelectSeq(uniq, IsWS)
        rs == SelectSeq(uniq, IsRS)
        wn == SelectSeq(uniq, IsWN)
        rn == SelectSeq(uniq, IsRN)
        keys == <<payer_key>> \o ws \o rs \o wn \o rn
        Compile(ix) ==
            CompiledIx(Position(keys, ix.program_id),
                       [j \in 1..Len(ix.accounts) |-> Position(keys, ix.accounts[j].pubkey)],
                       ix.data)
    IN  [header |-> Header(1 + Len(ws) + Len(rs), Len(rs), Len(rn)),
         account_keys |-> keys,
         instructions |-> [i \in 1..Len(ixs) |-> Compile(ixs[i])]]

\* Transaction::new_unsigned(msg): default signatures, default blockhash
NewUnsigned(msg) ==
    Tx([i \in 1..msg.header.num_required_signatures |-> 0],
       msg.header, msg.account_keys, 0, msg.instructions)

StrOk(t) == [ok |-> TRUE, val |-> t, err |-> ""]
StrErr(e) == [ok |-> FALSE, val |-> <<>>, err |-> e]

\* (amount * 1_000_000_000.0) as u64. An amount is carried as the integer
\* amount * 10^9 (the amounts of the model make the product exact); the
\* float-to-int cast saturates, so a negative amount becomes 0.
Lamports(amount) == IF amount < 0 THEN 0 ELSE amount

\* swap.rs:267-277
build_transfer_solMutStrictRecipient(from, to, amount) ==
    LET f == PubkeyFromStr(from)
        t == PubkeyFromStr(to)
    IN  IF ~f.ok THEN StrErr("Invalid from pubkey")
        ELSE IF ~t.ok THEN StrErr("Invalid to pubkey")
        ELSE StrOk(EncodeTx(NewUnsigned(CompileMessage(
                <<system_transfer(f.key, t.key, Lamports(amount))>>, f.key))))
build_transfer_sol(from, to, amount) ==
    LET f == PubkeyFromStr(from) IN
    IF ~f.ok THEN StrErr("Invalid from pubkey")
    ELSE
        LET t == PubkeyFromStr(to)
            to_pub == IF t.ok THEN t.key ELSE f.key
            ix == system_transfer(f.key, to_pub, Lamports(amount))
        IN StrOk(EncodeTx(NewUnsigned(CompileMessage(<<ix>>, f.key))))

\* swap.rs:280-282 (0.000001 SOL = 1000 lamports)
build_mock_swap_tx(user) == build_transfer_sol(user, user, 1000)


(***************************************************************************)
(* SPL token transfer: swap.rs:287-337                                     *)
(***************************************************************************)
TokenProgramKey == 20
AssociatedTokenProgramKey == 21

\* get_associated_token_address: a key derived from (wallet, mint), distinct
\* from every other key of the model.
AssociatedTokenAddress(wallet, mint) == 100 + 20 * wallet + mint

\* create_associated_token_account_idempotent(funder, wallet, mint, token_program)
create_ata_idempotent(funder, wallet, mint) ==
    Ix(AssociatedTokenProgramKey,
       <<Meta(funder, TRUE, TRUE),
         Meta(AssociatedTokenAddress(wallet, mint), FALSE, TRUE),
         Meta(wallet, FALSE, FALSE),
         Meta(mint, FALSE, FALSE),
         Meta(SystemProgramKey, FALSE, FALSE),
         Meta(TokenProgramKey, FALSE, FALSE)>>,
       <<1>>)

\* spl_token::instruction::transfer(token_program, source, dest, authority, [], amount)
token_transfer(source, dest, authority, amount) ==
    Ix(TokenProgramKey,
       <<Meta(source, FALSE, TRUE), Meta(dest, FALSE, TRUE), Meta(authority, TRUE, FALSE)>>,
       <<3>> \o LE(amount, 8))

build_transfer_spl(owner, recipient, mint_address, amount_atomic) ==
    LET o == PubkeyFromStr(owner)
        r == PubkeyFromStr(recipient)
        m == PubkeyFromStr(mint_address)
    IN
    IF ~o.ok THEN StrErr("Invalid owner pubkey")
    ELSE IF ~r.ok THEN StrErr("Invalid recipient pubkey")
    ELSE IF ~m.ok THEN StrErr("Invalid mint address")
    ELSE
        LET owner_ata == AssociatedTokenAddress(o.key, m.key)
            recipient_ata == AssociatedTokenAddress(r.key, m.key)
            instructions ==
                <<create_ata_idempotent(o.key, r.key, m.key),
                  token_transfer(owner_ata, recipient_ata, o.key, amount_atomic)>>
        IN StrOk(EncodeTx(NewUnsigned(CompileMessage(instructions, o.key))))

(***************************************************************************)
(* Fee bundling: swap.rs:180-260                                           *)
(***************************************************************************)
\* `as u8`
U8(n) == n % 256

\* swap.rs:187
FeeSkippedMutBothNeeded(wallet, lamports) == lamports = 0 /\ wallet = ""
FeeSkipped(wallet, lamports) == lamports = 0 \/ wallet = ""

\* swap.rs:210-216 and 224-230: the index of k, appending it when absent.
\* Returns the (possibly extended) table and the index.
FindOrPushMutAlwaysPush(keys, k) == [keys |-> Append(keys, k), idx |-> U8(Len(keys))]
FindOrPush(keys, k) ==
    IF Position(keys, k) >= 0
    THEN [keys |-> keys, idx |-> U8(Position(keys, k))]
    ELSE [keys |-> Append(keys, k), idx |-> U8(Len(keys))]

\* swap.rs:219-220: position(..).unwrap_or(0) as u8
UserIndex(keys, k) == IF Position(keys, k) >= 0 THEN U8(Position(keys, k)) ELSE 0

\* swap.rs:204-254: the message rebuilt with the fee instruction
WithFee(tx, user_pub, fee_pub, lamports) ==
    LET fee_ix == system_transfer(user_pub, fee_pub, lamports)
        f == FindOrPush(tx.account_keys, fee_pub)
        user_idx == UserIndex(f.keys, user_pub)
        sp == FindOrPush(f.keys, SystemProgramKey)
        compiled_fee_ix == CompiledIx(sp.idx, <<user_idx, f.idx>>, fee_ix.data)
    IN  Tx(tx.signatures, tx.header, sp.keys, tx.recent_blockhash,
           Append(tx.instructions, compiled_fee_ix))

append_fee_to_tx(tx_base64, user_pubkey, wallet, lamports) ==
    IF FeeSkipped(wallet, lamports) THEN StrOk(tx_base64)
    ELSE
        LET bytes == B64Decode(tx_base64) IN
        IF ~bytes.ok THEN StrErr("Failed to decode tx")
        ELSE
            LET de == Deserialize(bytes.bytes) IN
            IF ~de.ok THEN StrErr("Failed to deserialize tx")
            ELSE
                LET u == PubkeyFromStr(user_pubkey) IN
                IF ~u.ok THEN StrErr("Invalid user pubkey")
                ELSE
                    LET w == PubkeyFromStr(wallet) IN
                    IF ~w.ok THEN StrErr("Invalid fee wallet")
                    ELSE StrOk(EncodeTx(WithFee(de.tx, u.key, w.key, lamports)))


(***************************************************************************)
(* Router: main.rs                                                         *)
(***************************************************************************)
\* main.rs:69: .route("/agent/execute", post(handle_execute))
RoutedMutAnyMethod(m) == TRUE
Routed(m) == m = "POST"

\* A string with the UTF-8 width of each of its characters.
Str(t, w) == [some |-> TRUE, text |-> t, widths |-> w]
None == [some |-> FALSE, text |-> "", widths |-> <<>>]

RECURSIVE Sum(_)
Sum(w) == IF w = <<>> THEN 0 ELSE Head(w) + Sum(Tail(w))

\* str::is_char_boundary
IsCharBoundary(w, i) == \E n \in 0..Len(w) : Sum(SubSeq(w, 1, n)) = i

Min(a, b) == IF a < b THEN a ELSE b
Max(a, b) == IF a > b THEN a ELSE b

\* &recipient[..4.min(recipient.len())] and
\* &recipient[recipient.len().saturating_sub(4)..] both succeed
SliceOk(w) ==
    /\ IsCharBoundary(w, Min(4, Sum(w)))
    /\ IsCharBoundary(w, Max(Sum(w) - 4, 0))

\* swap.rs:30-41
token_decimals(symbol) ==
    CASE ToUpper(symbol) = "SOL" -> 9
      [] ToUpper(symbol) = "USDC" -> 6
      [] ToUpper(symbol) = "USDT" -> 6
      [] ToUpper(symbol) = "BONK" -> 5
      [] ToUpper(symbol) = "JUP" -> 6
      [] ToUpper(symbol) = "RAY" -> 6
      [] ToUpper(symbol) = "WIF" -> 6
      [] OTHER -> 9

RECURSIVE Pow10(_)
Pow10(n) == IF n = 0 THEN 1 ELSE 10 * Pow10(n - 1)

\* main.rs:205: (intent.amount * 10f64.powi(decimals)) as u64
AmountAtomic(amount, decimals) == Lamports(amount) \div Pow10(9 - decimals)

Ok200(act, tx) == Response(200, "handle_execute", "", "", 0, act, tx)
OkNoTx(act) == Response(200, "handle_execute", "", "", 0, act, <<>>)
Err400(msg) == Response(400, "handle_execute", msg, "", 0, "ERROR", <<>>)
Err500(msg) == Response(500, "handle_execute", msg, "", 0, "ERROR", <<>>)
\* the handler task unwinds: no response is written
Panicked == Response(0, "panic", "", "", 0, "", <<>>)

\* main.rs:99-236. parsed: the result of ai::parse_intent; jup: the result
\* of swap::get_jupiter_swap (both external).
handle_execute(payload, cfg_wallet, cfg_lamports, parsed, jup) ==
    LET is_devnet == payload.network # "mainnet" IN
    IF ~parsed.ok THEN Err500("parse_intent failed")
    ELSE
    LET intent == parsed.intent IN
    CASE intent.action = "SWAP" ->
            IF ~is_valid_token(intent.token_in) THEN Err400("Unknown input token")
            ELSE IF ~is_valid_token(intent.token_out) THEN Err400("Unknown output token")
            ELSE IF is_devnet THEN
                LET r == build_mock_swap_tx(payload.user_pubkey) IN
                IF r.ok THEN Ok200("SWAP", r.val) ELSE Err400(r.err)
            ELSE IF jup.ok THEN
                LET f == append_fee_to_tx(jup.val, payload.user_pubkey,
                                          cfg_wallet, cfg_lamports)
                IN  Ok200("SWAP", IF f.ok THEN f.val ELSE jup.val)
            ELSE Err400(jup.err)
      [] intent.action = "TRANSFER" ->
            IF ~intent.recipient.some THEN Err400("Missing recipient address")
            ELSE
            LET recipient == intent.recipient
                token == ToUpper(intent.token_in)
            IN
            IF token = "SOL" \/ token = "" THEN
                LET r == build_transfer_sol(payload.user_pubkey, recipient.text,
                                            intent.amount)
                IN  IF ~r.ok THEN Err400(r.err)
                    ELSE IF ~SliceOk(recipient.widths) THEN Panicked
                    ELSE Ok200("TRANSFER", r.val)
            ELSE IF ~token_mint(token).some THEN Err400("Unknown token")
            ELSE IF is_devnet THEN
                LET r == build_transfer_sol(payload.user_pubkey, payload.user_pubkey, 1000)
                IN  IF ~r.ok THEN Err400(r.err)
                    ELSE IF ~SliceOk(recipient.widths) THEN Panicked
                    ELSE Ok200("TRANSFER", r.val)
            ELSE
                LET r == build_transfer_spl(payload.user_pubkey, recipient.text,
                                            token_mint(token).mint,
                                            AmountAtomic(intent.amount, token_decimals(token)))
                IN  IF ~r.ok THEN Err400(r.err)
                    ELSE IF ~SliceOk(recipient.widths) THEN Panicked
                    ELSE Ok200("TRANSFER", r.val)
      [] intent.action = "MINT_NFT" -> OkNoTx("MINT_NFT")
      [] OTHER -> Err400("Unknown Action")


(***************************************************************************)
(* Inputs of the HTTP pipeline                                             *)
(***************************************************************************)
\* JSON bodies: one that Json<UserRequest> rejects, and valid ones.
BadBody == [json_ok |-> FALSE, user_pubkey |-> "", network |-> ""]
Body(u, n) == [json_ok |-> TRUE, user_pubkey |-> u, network |-> n]
Bodies == {BadBody} \cup {Body(u, n) : u \in {"UserA", "not-a-key"}, n \in {"devnet", "mainnet"}}

Request(m, h, b) == [method |-> m, header |-> h, body |-> b]
NoReq == Request("", NoHeader, BadBody)

Recipients ==
    {None,
     Str("AcctB", <<1, 1, 1, 1, 1>>),          \* a valid address
     Str("bob", <<1, 1, 1>>),                   \* short, not an address
     Str("abc-euro-sign", <<1, 1, 1, 3>>)}      \* "abc" and a 3-byte character

Intent(a, amt, tin, tout, rcp) ==
    [action |-> a, amount |-> amt, token_in |-> tin, token_out |-> tout, recipient |-> rcp]

\* What the parser can return. Fields a branch of handle_execute never
\* reads are held fixed for that action.
Intents ==
    {Intent("SWAP", amt, tin, tout, None) :
        amt \in {500000000}, tin \in {"SOL", "usdc", "DOGE"}, tout \in {"USDC", "DOGE"}}
    \cup {Intent("TRANSFER", amt, tin, "", rcp) :
        amt \in {500000000, -1000}, tin \in {"SOL", "", "usdc", "DOGE"}, rcp \in Recipients}
    \cup {Intent("MINT_NFT", 1, "", "", None), Intent("LP", 0, "", "", None)}

ParseResults == {[ok |-> FALSE, intent |-> Intent("", 0, "", "", None)]}
                \cup {[ok |-> TRUE, intent |-> i] : i \in Intents}

\* A swap transaction as the quote provider could return it for UserA.
SwapTx ==
    Tx(<<0>>, Header(1, 0, 1), <<1, 2, 0>>, 9,
       <<CompiledIx(2, <<0, 1>>, <<7>>)>>)

JupiterResults ==
    {StrErr("Jupiter quote request failed"),
     StrOk(EncodeTx(SwapTx)),
     StrOk(<<65, 1, 2, 3>>)}

(***************************************************************************)
(* HTTP pipeline: actions                                                  *)
(***************************************************************************)
\* A request arrives at the payment layer.
ReceiveFrom(bodies) ==
    /\ pc = "idle"
    /\ key_index < MaxKeyIndex
    /\ \E m \in Methods, h \in Headers, b \in bodies :
          req' = Request(m, h, b)
    /\ pc' = "gate"
    /\ UNCHANGED <<fwd, gate, resp, ledger, rpc_up, key_index>>
    /\ UNCHANGED <<feeVars, buildVars, histVars>>

Receive == ReceiveFrom(Bodies)

\* payment.rs:10-47 up to the await on next.run
X402Step ==
    /\ pc = "gate"
    /\ LET d == x402_decide(req, ledger, rpc_up) IN
        /\ gate' = d
        /\ IF d.decision = "ADMIT"
           THEN fwd' = req /\ pc' = "next" /\ resp' = resp
           ELSE fwd' = fwd /\ pc' = "done" /\ resp' = d.answer
    /\ UNCHANGED <<req, ledger, rpc_up, key_index>>
    /\ UNCHANGED <<feeVars, buildVars>>

X402Middleware == X402Step /\ UNCHANGED histVars

\* next.run(req): the route has no handler for the method
MethodNotAllowed ==
    /\ pc = "next"
    /\ ~Routed(fwd.method)
    /\ resp' = Response(405, "route", "", "", 0, "", <<>>)
    /\ pc' = "done"
    /\ UNCHANGED <<req, fwd, gate, ledger, rpc_up, key_index>>
    /\ UNCHANGED <<feeVars, buildVars, histVars>>

\* next.run(req): the Json<UserRequest> extractor rejects the body
ExtractorRejects ==
    /\ pc = "next"
    /\ Routed(fwd.method)
    /\ ~fwd.body.json_ok
    /\ \E st \in {400, 415, 422} :
          resp' = Response(st, "extractor", "", "", 0, "", <<>>)
    /\ pc' = "done"
    /\ UNCHANGED <<req, fwd, gate, ledger, rpc_up, key_index>>
    /\ UNCHANGED <<feeVars, buildVars, histVars>>

\* next.run(req): handle_execute runs (main.rs:99-236, get_next_key 30-33)
HandleExecute ==
    /\ pc = "next"
    /\ Routed(fwd.method)
    /\ fwd.body.json_ok
    /\ \E parsed \in ParseResults, jup \in JupiterResults :
          resp' = handle_execute(fwd.body, fee_wallet, fee_lamports, parsed, jup)
    /\ key_index' = key_index + 1
    /\ pc' = "done"
    /\ UNCHANGED <<req, fwd, gate, ledger, rpc_up>>
    /\ UNCHANGED <<feeVars, buildVars, histVars>>

\* The response has been written; every request-scoped value is dropped.
CompleteStep ==
    /\ pc = "done"
    /\ pc' = "idle"
    /\ req' = NoReq /\ fwd' = NoReq /\ gate' = NoGate /\ resp' = NoResp
    /\ UNCHANGED <<ledger, rpc_up, key_index>>
    /\ UNCHANGED <<feeVars, buildVars>>

Complete == CompleteStep /\ UNCHANGED histVars

\* The ledger and the RPC node change on their own: a transaction lands
\* (successfully or failed), drops out of the node's history, or the node
\* becomes (un)reachable.
LedgerStep ==
    /\ \/ \E sg \in SigStrings, v \in {"absent", "success", "failed"} :
            /\ ledger[sg] # v
            /\ ledger' = [ledger EXCEPT ![sg] = v]
            /\ rpc_up' = rpc_up
       \/ ledger' = ledger /\ rpc_up' = ~rpc_up
    /\ UNCHANGED <<pc, req, fwd, gate, resp, key_index>>
    /\ UNCHANGED <<feeVars, buildVars, histVars>>

\* The pipeline observed. The gate never reads the body (payment.rs:10-47),
\* so the observed requests all carry a body the extractor rejects: the
\* handler is not reached and any number of requests can be admitted.
ReceiveReplay == ReceiveFrom({BadBody})

\* x402_middleware, with its inputs and its outcome written down
X402MiddlewareObserved ==
    /\ X402Step
    /\ obs' = Observation(req, ledger, rpc_up, gate')
    /\ prev' = prev

\* The response has been written; the record of this request may take the
\* place of the remembered earlier one.
CompleteObserved ==
    /\ CompleteStep
    /\ obs' = NoObs
    /\ prev' \in {prev, obs}

(***************************************************************************)
(* Fee bundler: inputs and action                                          *)
(***************************************************************************)
KeyIds == {0, 1, 2, 3}

Injective(ks) == \A i, j \in 1..Len(ks) : ks[i] = ks[j] => i = j

KeyTables ==
    {ks \in UNION {[1..n -> KeyIds] : n \in 1..MaxKeys} : Injective(ks)}

\* Well-formed legacy transactions with one signer: any key table without
\* duplicates, with or without a read-only unsigned tail, with or without
\* one instruction (program = last key, account = first key).
InputTxs ==
    {Tx(<<0>>, Header(1, 0, nrou), ks, 9, ixs) :
        nrou \in {0, 1}, ks \in KeyTables,
        ixs \in {<<>>, <<CompiledIx(0, <<0>>, <<7>>)>>}}

FixIx(tx) ==
    [tx EXCEPT !.instructions =
        [i \in 1..Len(tx.instructions) |->
            [tx.instructions[i] EXCEPT !.program_id_index = Len(tx.account_keys) - 1]]]

\* Transactions bincode reads but that are not well formed: a duplicated
\* key, an empty key table, an instruction index beyond the table.
OddTxs ==
    {Tx(<<0>>, Header(1, 0, 0), <<1, 3, 3>>, 9, <<>>),
     Tx(<<>>, Header(0, 0, 0), <<>>, 9, <<>>),
     Tx(<<0>>, Header(1, 0, 0), <<1>>, 9, <<CompiledIx(5, <<0>>, <<7>>)>>)}

\* Texts that are no transaction: a character outside the alphabet, a
\* length that is not a multiple of four, base64 of a truncated message.
JunkBlobs == {<<65, 1, 2, 3>>, <<1, 2, 3>>, B64Encode(<<1, 0>>)}

InputBlobs ==
    {EncodeTx(FixIx(tx)) :
        tx \in {t \in InputTxs :
                  t.header.num_readonly_unsigned_accounts < Len(t.account_keys)}}
    \cup {EncodeTx(tx) : tx \in OddTxs}
    \cup JunkBlobs

NoApply == [ok |-> FALSE, input |-> <<>>, out |-> <<>>, err |-> ""]

\* One call of append_fee_to_tx on the text held; the caller keeps the
\* unmodified text when the call fails (main.rs:147-149).
AppendFee ==
    /\ applied < MaxApply
    /\ LET r == append_fee_to_tx(blob, payer, fee_wallet, fee_lamports) IN
        /\ last' = [ok |-> r.ok, input |-> blob, out |-> r.val, err |-> r.err]
        /\ blob' = IF r.ok THEN r.val ELSE blob
    /\ applied' = applied + 1
    /\ UNCHANGED <<blob0, payer, fee_wallet, fee_lamports>>
    /\ UNCHANGED <<gateVars, buildVars, histVars>>

(***************************************************************************)
(* build_transfer_sol: inputs and action                                   *)
(***************************************************************************)
\* from: valid addresses (the system program among them) and texts that are
\* no address
Senders == {"UserA", "AcctB", SYSTEM_PROGRAM_STR, "not-a-key", ""}

\* to: valid addresses and texts that are no address
RecipientTexts == {"AcctB", "UserA", SYSTEM_PROGRAM_STR, "bob", "not-a-key", ""}

\* amount * 10^9: negative, zero, 0.000001 SOL, 0.5 SOL
Amounts == {0 - 1000, 0, 1000, 500000000}

NoBuild == [called |-> FALSE, res |-> StrErr("")]

NotBuilding ==
    /\ tf_from = "" /\ tf_to = "" /\ tf_amount = 0 /\ built = NoBuild

\* One call of build_transfer_sol on the arguments of this run
BuildTransferSol ==
    /\ ~built.called
    /\ built' = [called |-> TRUE, res |-> build_transfer_sol(tf_from, tf_to, tf_amount)]
    /\ UNCHANGED <<tf_from, tf_to, tf_amount>>
    /\ UNCHANGED <<gateVars, feeVars, histVars>>

(***************************************************************************)
(* Specifications                                                          *)
(***************************************************************************)
GateIdle ==
    /\ pc = "idle"
    /\ req = NoReq /\ fwd = NoReq /\ gate = NoGate /\ resp = NoResp
    /\ key_index = 0

Init ==
    /\ GateIdle
    /\ ledger \in [SigStrings -> {"absent", "success", "failed"}]
    /\ rpc_up \in BOOLEAN
    \* AppState.fee_wallet, AppState.fee_lamports (main.rs:50-54)
    /\ fee_wallet \in {"", "FeeW"}
    /\ fee_lamports = 5000
    /\ blob = <<>> /\ blob0 = <<>> /\ payer = "" /\ applied = 0 /\ last = NoApply
    /\ NotBuilding
    /\ obs = NoObs /\ prev = NoObs

Next ==
    \/ Receive
    \/ X402Middleware
    \/ MethodNotAllowed
    \/ ExtractorRejects
    \/ HandleExecute
    \/ Complete
    \/ LedgerStep

Spec == Init /\ [][Next]_vars

InitFee ==
    /\ GateIdle
    /\ ledger = [sg \in SigStrings |-> "absent"]
    /\ rpc_up = TRUE
    /\ blob \in InputBlobs
    /\ blob0 = blob
    /\ payer \in {"UserA", "not-a-key"}
    /\ fee_wallet \in {"", "FeeW", SYSTEM_PROGRAM_STR, "not-a-key"}
    /\ fee_lamports \in {0, 5000}
    /\ applied = 0
    /\ last = NoApply
    /\ NotBuilding
    /\ obs = NoObs /\ prev = NoObs

NextFee == AppendFee

SpecFee == InitFee /\ [][NextFee]_vars

InitBuild ==
    /\ GateIdle
    /\ ledger = [sg \in SigStrings |-> "absent"]
    /\ rpc_up = TRUE
    /\ fee_wallet = "" /\ fee_lamports = 0
    /\ blob = <<>> /\ blob0 = <<>> /\ payer = "" /\ applied = 0 /\ last = NoApply
    /\ tf_from \in Senders
    /\ tf_to \in RecipientTexts
    /\ tf_amount \in Amounts
    /\ built = NoBuild
    /\ obs = NoObs /\ prev = NoObs

NextBuild == BuildTransferSol

SpecBuild == InitBuild /\ [][NextBuild]_vars

NextReplay ==
    \/ ReceiveReplay
    \/ X402MiddlewareObserved
    \/ MethodNotAllowed
    \/ ExtractorRejects
    \/ CompleteObserved
    \/ LedgerStep

SpecReplay == Init /\ [][NextReplay]_vars


(***************************************************************************)
(* Properties of the payment gate                                          *)
(***************************************************************************)
\* x402_middleware has decided for the request in flight
Decided == gate.decision # "NONE"

\* the middleware is deciding in this step
Deciding == pc = "gate" /\ pc' # "gate"

\* the 402 answer naming the merchant and the price
IsPaymentRequired(r) ==
    r.status = 402 /\ r.by = "gate" /\ r.address = MERCHANT /\ r.amount = PRICE

\* the request was answered by the gate with r-shaped answer and never forwarded
NotForwarded == fwd = NoReq /\ pc = "done" /\ resp.by = "gate"

\* the header value parses as a transaction signature
ParsesAsSignature(h) ==
    h.present /\ HeaderToStr(h).ok /\ SignatureFromStr(HeaderToStr(h).str).ok

IsSentinel(h) == h.present /\ HeaderToStr(h).ok /\ HeaderToStr(h).str = MOCK_SIGNATURE

\* C1 as stated: every request without an X-Payment-Sig header is answered
\* 402 with the merchant address and the price, and is not forwarded.
C1_NoHeaderAlways402 ==
    (Decided /\ ~req.header.present) => (NotForwarded /\ IsPaymentRequired(resp))

\* C1 amended: every request other than an OPTIONS request that carries no
\* X-Payment-Sig header is answered 402 with the merchant address and the
\* price, and is not forwarded.
C1_NoHeader402UnlessOptions ==
    (Decided /\ ~req.header.present /\ req.method # "OPTIONS")
        => (NotForwarded /\ IsPaymentRequired(resp))

C1_Witness ==
    /\ pc = "done" /\ req.method = "POST" /\ ~req.header.present
    /\ resp.status = 402 /\ fwd = NoReq

\* C2: a request whose header parses as a signature that the ledger lookup
\* resolves at the moment of the decision is forwarded unchanged, and the
\* response it gets is the one written behind the gate, never the 402.
C2_ResolvedProofAdmitted ==
    [][ /\ (Deciding /\ ParsesAsSignature(req.header)
              /\ GetTransaction(ledger, rpc_up, req.header.text).ok)
            => (pc' = "next" /\ fwd' = req /\ gate'.decision = "ADMIT")
        /\ (pc = "next" /\ pc' = "done" /\ ParsesAsSignature(fwd.header))
            => (resp'.by # "gate" /\ resp'.status # 402 /\ fwd' = req) ]_vars

C2_Witness ==
    /\ pc = "done" /\ gate.via = "ledger" /\ gate.lookup = "success"
    /\ fwd = req /\ resp.by = "handle_execute" /\ resp.status = 200

\* C3: handle_execute runs for a request only if the gate admitted that
\* request because it carried the bypass sentinel or a proof the ledger
\* lookup resolved, whatever the method; a request the gate answered itself
\* is never forwarded.
C3_HandlerOnlyAfterAdmit ==
    /\ resp.by \in {"handle_execute", "panic"} =>
        /\ gate.decision = "ADMIT"
        /\ fwd = req
        /\ \/ gate.via = "sentinel" /\ IsSentinel(req.header)
           \/ /\ gate.via = "ledger"
              /\ ParsesAsSignature(req.header)
              /\ gate.lookup \in {"success", "failed"}
    /\ gate.decision \in {"REJECT", "BAD_REQUEST"} => NotForwarded

C3_Witness ==
    /\ resp.by = "handle_execute" /\ gate.via = "ledger" /\ req.method = "POST"

\* C4 as stated: every request whose header value does not parse as a
\* signature is answered 400 and is not forwarded.
C4_UnparseableAlways400 ==
    (Decided /\ req.header.present /\ ~ParsesAsSignature(req.header))
        => (NotForwarded /\ resp.status = 400)

\* C4 amended: a request other than an OPTIONS request whose header value is
\* not the bypass sentinel and does not parse as a signature is answered
\* 400, not 402, and is not forwarded.
C4_Unparseable400UnlessSentinelOrOptions ==
    (Decided /\ req.header.present /\ ~ParsesAsSignature(req.header)
        /\ ~IsSentinel(req.header) /\ req.method # "OPTIONS")
        => (NotForwarded /\ resp.status = 400 /\ ~IsPaymentRequired(resp))

C4_Witness ==
    /\ pc = "done" /\ req.method = "POST" /\ req.header = TextHeader("not-a-signature")
    /\ resp.status = 400 /\ fwd = NoReq

\* C5 as stated: a non-sentinel proof that fails to resolve (header value
\* unparseable, signature malformed, transaction not found, ledger
\* unreachable) is answered with the payment-required response.
C5_AnyFailureRejects ==
    (Decided /\ req.header.present /\ ~IsSentinel(req.header)
        /\ (~ParsesAsSignature(req.header) \/ gate.lookup \in {"not_found", "unreachable"}))
        => (NotForwarded /\ IsPaymentRequired(resp))

\* C5 amended: for a request other than an OPTIONS request carrying a
\* non-sentinel proof, a well-formed signature whose lookup fails
\* (transaction not found or ledger unreachable) is answered with the
\* payment-required response naming the merchant address and the amount; an
\* unparseable header value or a malformed signature is answered 400 without
\* that payload; in both cases the request is not forwarded.
C5_LookupFailureRejectsMalformed400 ==
    [][ (Deciding /\ req.header.present /\ ~IsSentinel(req.header)
            /\ req.method # "OPTIONS")
        => /\ (ParsesAsSignature(req.header)
                 /\ ~GetTransaction(ledger, rpc_up, req.header.text).ok)
                => (pc' = "done" /\ fwd' = NoReq /\ IsPaymentRequired(resp')
                      /\ gate'.decision = "REJECT")
           /\ ~ParsesAsSignature(req.header)
                => (pc' = "done" /\ fwd' = NoReq /\ resp'.by = "gate"
                      /\ resp'.status = 400 /\ resp'.address = "") ]_vars

C5_Witness ==
    /\ pc = "done" /\ req.method = "POST" /\ req.header = TextHeader("SigA")
    /\ gate.lookup = "unreachable" /\ IsPaymentRequired(resp) /\ fwd = NoReq

\* C6 as stated: outside test/development configurations (a request for
\* network "mainnet") a request carrying the sentinel is not admitted by the
\* bypass.
C6_BypassOffOutsideDev ==
    ~(/\ gate.via = "sentinel"
      /\ fwd.body.json_ok /\ fwd.body.network = "mainnet"
      /\ resp.by = "handle_execute")

\* C7 as stated: a signature that resolves to a transaction recorded as
\* failed is never admitted.
C7_FailedTxNeverAdmitted ==
    (Decided /\ gate.lookup = "failed") => gate.decision # "ADMIT"


(***************************************************************************)
(* Properties of the fee bundler                                           *)
(***************************************************************************)
\* the transaction a base64 text holds (NoTx when it holds none)
DecodeTx(t) ==
    LET b == B64Decode(t) IN
    IF b.ok THEN Deserialize(b.bytes).tx ELSE NoTx

IsTx(t) == B64Decode(t).ok /\ Deserialize(B64Decode(t).bytes).ok

\* The data model's invariant of an unsigned transaction: a non-empty key
\* table without duplicates, a header that fits it, one signature slot per
\* required signature, every instruction index inside the table.
WellFormed(tx) ==
    /\ Len(tx.account_keys) >= 1
    /\ Injective(tx.account_keys)
    /\ tx.header.num_required_signatures >= 1
    /\ tx.header.num_readonly_signed_accounts < tx.header.num_required_signatures
    /\ tx.header.num_required_signatures + tx.header.num_readonly_unsigned_accounts
          <= Len(tx.account_keys)
    /\ Len(tx.signatures) = tx.header.num_required_signatures
    /\ \A i \in 1..Len(tx.instructions) :
          /\ tx.instructions[i].program_id_index < Len(tx.account_keys)
          /\ \A j \in 1..Len(tx.instructions[i].accounts) :
                tx.instructions[i].accounts[j] < Len(tx.account_keys)

Count(keys, k) == Cardinality({i \in 1..Len(keys) : keys[i] = k})

LastIx(tx) == tx.instructions[Len(tx.instructions)]

\* the fast path of append_fee_to_tx applies to the arguments of this run
NoFeeConfigured == fee_lamports = 0 \/ fee_wallet = ""

\* C8: with fee_lamports = 0 or an empty fee_wallet, append_fee_to_tx
\* returns Ok with the input text unchanged, whatever the text and the payer.
C8_NoFeeReturnsInput ==
    (applied >= 1 /\ NoFeeConfigured)
        => (last.ok /\ last.out = last.input /\ blob = blob0)

C8_Witness ==
    /\ applied >= 1 /\ fee_lamports = 0 /\ fee_wallet = "FeeW"
    /\ blob0 \in JunkBlobs /\ payer = "not-a-key"
    /\ last.ok /\ last.out = blob0

\* C9: two successful applications with the same payer and fee wallet to a
\* well-formed transaction leave exactly one key-table entry for the fee
\* wallet and one for the system program: the second application appends no
\* key and its instruction carries the indices of the first, and each
\* application appends exactly one instruction.
C9_SecondApplicationReusesKeys ==
    (applied = 2 /\ last.ok /\ ~NoFeeConfigured /\ WellFormed(DecodeTx(blob0)))
        => LET t0 == DecodeTx(blob0)
               t1 == DecodeTx(last.input)
               t2 == DecodeTx(last.out)
           IN  /\ IsTx(last.input) /\ IsTx(last.out)
               /\ t2.account_keys = t1.account_keys
               /\ Count(t2.account_keys, PubkeyFromStr(fee_wallet).key) = 1
               /\ Count(t2.account_keys, SystemProgramKey) = 1
               /\ t1.instructions = Append(t0.instructions, LastIx(t1))
               /\ t2.instructions = Append(t1.instructions, LastIx(t1))

C9_Witness ==
    /\ applied = 2 /\ last.ok /\ fee_wallet = "FeeW" /\ fee_lamports = 5000
    /\ WellFormed(DecodeTx(blob0))
    /\ Count(DecodeTx(blob0).account_keys, 3) = 0
    /\ Count(DecodeTx(blob0).account_keys, SystemProgramKey) = 0
    /\ Count(DecodeTx(blob).account_keys, 3) = 1
    /\ Len(DecodeTx(blob).instructions) = Len(DecodeTx(blob0).instructions) + 2

\* C10 as stated: after a successful application to a well-formed
\* transaction the appended instruction's program index resolves to the
\* system program, its first account to the payer and its second to the fee
\* wallet; keys already in the table keep their index, keys not in the table
\* (the payer included) sit at new trailing indices, and every instruction
\* index is inside the resulting table.
C10_FeeInstructionResolves ==
    (applied >= 1 /\ last.ok /\ ~NoFeeConfigured /\ WellFormed(DecodeTx(last.input)))
        => LET old == DecodeTx(last.input)
               new == DecodeTx(last.out)
               K == new.account_keys
               ix == LastIx(new)
               n == Len(old.account_keys)
               Resolves(idx, k) == idx < Len(K) /\ K[idx + 1] = k
           IN  /\ IsTx(last.out)
               /\ Resolves(ix.program_id_index, SystemProgramKey)
               /\ Len(ix.accounts) = 2
               /\ Resolves(ix.accounts[1], PubkeyFromStr(payer).key)
               /\ Resolves(ix.accounts[2], PubkeyFromStr(fee_wallet).key)
               /\ SubSeq(K, 1, n) = old.account_keys
               /\ \A k \in {SystemProgramKey, PubkeyFromStr(payer).key,
                            PubkeyFromStr(fee_wallet).key} :
                     Position(old.account_keys, k) < 0 => Position(K, k) >= n
               /\ \A i \in 1..Len(new.instructions) :
                     /\ new.instructions[i].program_id_index < Len(K)
                     /\ \A j \in 1..Len(new.instructions[i].accounts) :
                           new.instructions[i].accounts[j] < Len(K)


(***************************************************************************)
(* The regions a message header implies over the key table (0-based        *)
(* index i in a table of n keys): the first num_required_signatures keys   *)
(* sign, the last num_readonly_signed_accounts of those are read-only, and *)
(* the last num_readonly_unsigned_accounts of the table are read-only.     *)
(***************************************************************************)
IsSignerIndex(h, i) == i < h.num_required_signatures

IsReadonlyIndex(h, n, i) ==
    \/ /\ i < h.num_required_signatures
       /\ i >= h.num_required_signatures - h.num_readonly_signed_accounts
    \/ /\ i >= h.num_required_signatures
       /\ i >= n - h.num_readonly_unsigned_accounts

\* C11 as stated: a successful application keeps the three header counts,
\* and under that header every key of the original table keeps its signer
\* and read-only classification while every appended key is neither a
\* signer nor read-only, whatever the header of the input.
C11_HeaderRegionsKept ==
    (applied >= 1 /\ last.ok /\ ~NoFeeConfigured /\ WellFormed(DecodeTx(last.input)))
        => LET old == DecodeTx(last.input)
               new == DecodeTx(last.out)
               n0 == Len(old.account_keys)
               n1 == Len(new.account_keys)
           IN  /\ IsTx(last.out)
               /\ new.header = old.header
               /\ n1 >= n0
               /\ \A i \in 0..(n0 - 1) :
                     /\ new.account_keys[i + 1] = old.account_keys[i + 1]
                     /\ IsSignerIndex(new.header, i) = IsSignerIndex(old.header, i)
                     /\ IsReadonlyIndex(new.header, n1, i)
                            = IsReadonlyIndex(old.header, n0, i)
               /\ \A i \in n0..(n1 - 1) :
                     /\ ~IsSignerIndex(new.header, i)
                     /\ ~IsReadonlyIndex(new.header, n1, i)

\* C13 as stated: whenever handle_execute has run for an admitted request,
\* whatever intent the parser returned (any action, recipient text, amount)
\* and whatever user_pubkey the body carries, it has produced a response
\* whose status is 200, 400 or 500; the handler never panics.
C13_HandlerAlwaysResponds ==
    (pc = "done" /\ gate.decision = "ADMIT" /\ Routed(fwd.method) /\ fwd.body.json_ok)
        => /\ resp.by = "handle_execute"
           /\ resp.status \in {200, 400, 500}

(***************************************************************************)
(* Properties of build_transfer_sol                                        *)
(***************************************************************************)
\* the call returned a transaction with a single system transfer of the
\* requested lamports from the sender to the sender, paid by the sender
SelfTransferBuilt ==
    /\ built.res.ok
    /\ IsTx(built.res.val)
    /\ LET tx == DecodeTx(built.res.val)
           sender == PubkeyFromStr(tf_from).key
       IN  /\ WellFormed(tx)
           /\ tx.account_keys[1] = sender
           /\ Len(tx.instructions) = 1
           /\ LET ix == tx.instructions[1] IN
               /\ tx.account_keys[ix.program_id_index + 1] = SystemProgramKey
               /\ Len(ix.accounts) = 2
               /\ tx.account_keys[ix.accounts[1] + 1] = sender
               /\ tx.account_keys[ix.accounts[2] + 1] = sender
               /\ ix.data = LE(2, 4) \o LE(Lamports(tf_amount), 8)

\* C12 as stated: called with a malformed recipient, build_transfer_sol
\* never fails; for every sender and amount it returns a transaction with a
\* single transfer instruction to the sender, paid by the sender.
C12_MalformedRecipientNeverFails ==
    (built.called /\ ~PubkeyFromStr(tf_to).ok) => SelfTransferBuilt

\* C12 amended: called with a malformed recipient, build_transfer_sol
\* returns the self-transfer transaction for every well-formed sender and
\* every amount, and fails with the invalid-sender error for every
\* malformed sender.
C12_MalformedRecipientFallsBackToSender ==
    (built.called /\ ~PubkeyFromStr(tf_to).ok)
        => IF PubkeyFromStr(tf_from).ok
           THEN SelfTransferBuilt
           ELSE ~built.res.ok /\ built.res.err = "Invalid from pubkey"

C12_Witness ==
    /\ built.called
    /\ ~PubkeyFromStr(tf_to).ok
    /\ PubkeyFromStr(tf_from).ok
    /\ tf_amount > 0
    /\ SelfTransferBuilt

(***************************************************************************)
(* Properties of the gate over sequences of requests                       *)
(***************************************************************************)
\* the decision for the request in flight and the remembered decision for an
\* earlier request were given the same header and the same ledger answer
SameHeaderAndAnswer ==
    /\ obs.seen /\ prev.seen
    /\ obs.header = prev.header
    /\ obs.answer = prev.answer

SameDecision == obs.decision = prev.decision

====
